---- MODULE Spec2Model ----
(***************************************************************************)
(* Model of modern_features.py: the generic Stack, the sequence accessors  *)
(* first / last, the Animal hierarchy, format_user_data and distance.      *)
(*                                                                         *)
(* The Stack is the only stateful unit; the other units are pure functions *)
(* and are checked under specifications whose initial states draw the      *)
(* arguments from bounded sets and whose action applies the function.      *)
(***************************************************************************)
EXTENDS Integers, Sequences, FiniteSets

VARIABLES
    items,      \* Stack.items: the list owned by the one Stack instance
    hist,       \* the calls made on the Stack so far, with what each returned
    seq_arg,    \* first / last: the argument `items`
    acc_res,    \* first / last: the call made on seq_arg and its outcome
    animals,    \* the Animal instances created so far (each one's class)
    sounds,     \* the sound() calls made so far: instance and returned text
    user_data,  \* format_user_data: the argument mapping
    fmt_res,    \* format_user_data: the outcome of the call
    p1,         \* distance: first point
    p2,         \* distance: second point
    dist_res    \* distance: the outcome of the call

vars == <<items, hist, seq_arg, acc_res, animals, sounds,
          user_data, fmt_res, p1, p2, dist_res>>

stackVars  == <<items, hist>>
accVars    == <<seq_arg, acc_res>>
animalVars == <<animals, sounds>>
fmtVars    == <<user_data, fmt_res>>
distVars   == <<p1, p2, dist_res>>

----------------------------------------------------------------------------
(* Bounds *)

NumElems   == 2     \* element values are 1..NumElems
MaxOps     == 6     \* calls made on the Stack in one run
MaxSeqLen  == 5     \* length of the sequences handed to first / last
MaxAnimals == 3     \* instances created in one run
MaxCalls   == 3     \* sound() calls made in one run
MaxValLen  == 2     \* length of the strings held by user_data
MaxCoord   == 4     \* finite coordinates of a point are -MaxCoord..MaxCoord
MaxFloat   == 30    \* largest finite magnitude of the modelled float format

Elems == 1 .. NumElems

\* None, as returned by push, and the placeholder of a call that raised.
NoVal == 0

\* A call's outcome: a returned value, or the exception that left the call.
Returned(v) == [ok |-> TRUE, val |-> v, err |-> "none"]
Raised(e, none) == [ok |-> FALSE, val |-> none, err |-> e]

\* The unit has not been called (the value of its variables in the
\* specifications of the other units).
NotCalled == [fn |-> "none"]

----------------------------------------------------------------------------
(* list: the operations of the built-in list and of Sequence the code uses *)

\* Mutant of ListAppend: the item is inserted at the front (s.insert(0, x)).
ListInsertFront(s, x) == <<x>> \o s

\* list.append(x)
ListAppend(s, x) == Append(s, x)

\* Mutant of ListPop: pops the first element (s.pop(0)), a queue.
ListPopFirst(s) ==
    IF Len(s) = 0
    THEN [out |-> Raised("IndexError", NoVal), rest |-> s]
    ELSE [out |-> Returned(s[1]), rest |-> SubSeq(s, 2, Len(s))]

\* list.pop(): removes and returns the last element; IndexError when empty,
\* and the list is left as it was.
ListPop(s) ==
    IF Len(s) = 0
    THEN [out |-> Raised("IndexError", NoVal), rest |-> s]
    ELSE [out |-> Returned(s[Len(s)]), rest |-> SubSeq(s, 1, Len(s) - 1)]

\* s[i] with Python's 0-based indices, a negative index counting from the
\* end; IndexError outside -len(s) .. len(s)-1.
SeqGetItem(s, i) ==
    LET j == IF i < 0 THEN i + Len(s) ELSE i
    IN  IF j < 0 \/ j >= Len(s)
        THEN Raised("IndexError", NoVal)
        ELSE Returned(s[j + 1])

----------------------------------------------------------------------------
(* Stack *)

\* Stack.__init__
StackInit ==
    /\ items = <<>>
    /\ hist = <<>>

\* Stack.push(item)
Push(item) ==
    /\ Len(hist) < MaxOps
    /\ items' = ListAppend(items, item)
    /\ hist' = Append(hist, [op |-> "push", arg |-> item, out |-> Returned(NoVal)])

\* Mutant of StackPop: an empty Stack answers None instead of raising.
StackPopOrNone(s) ==
    IF Len(s) = 0
    THEN [out |-> Returned(NoVal), rest |-> s]
    ELSE ListPop(s)

\* The body of Stack.pop: return self.items.pop()
StackPop(s) == ListPop(s)

\* Stack.pop()
Pop ==
    /\ Len(hist) < MaxOps
    /\ LET r == StackPop(items)
       IN  /\ items' = r.rest
           /\ hist' = Append(hist, [op |-> "pop", arg |-> NoVal, out |-> r.out])

----------------------------------------------------------------------------
(* first / last *)

\* The sequences of length at most n over Elems.
SeqsUpTo(n) == UNION {[1 .. k -> Elems] : k \in 0 .. n}

\* Mutant of first: an empty sequence answers None instead of raising.
first_or_none(s) ==
    IF Len(s) = 0 THEN Returned(NoVal) ELSE SeqGetItem(s, 0)

\* first(items): return items[0]
first(s) == SeqGetItem(s, 0)

\* Mutant of last: the index is 1 (the second element) and not -1.
last_index_one(s) == SeqGetItem(s, 1)

\* last(items): return items[-1]
last(s) == SeqGetItem(s, -1)

AccInit ==
    /\ seq_arg \in SeqsUpTo(MaxSeqLen)
    /\ acc_res = NotCalled

CallFirst ==
    /\ acc_res = NotCalled
    /\ acc_res' = [fn |-> "first", out |-> first(seq_arg)]
    /\ UNCHANGED seq_arg

CallLast ==
    /\ acc_res = NotCalled
    /\ acc_res' = [fn |-> "last", out |-> last(seq_arg)]
    /\ UNCHANGED seq_arg

----------------------------------------------------------------------------
(* Animal, Dog, Cat *)

Classes == {"Animal", "Dog", "Cat"}

\* The method resolution order of a class: the class, then its base.
MRO(c) == IF c = "Animal" THEN <<"Animal">> ELSE <<c, "Animal">>

\* Mutant of SoundDefinedIn: Dog's method does not override sound (the
\* slip @override is there to catch).
SoundDefinedInButDog == {"Animal", "Cat"}

\* The classes whose body defines sound.
SoundDefinedIn == {"Animal", "Dog", "Cat"}

\* The text the sound method defined in class c returns.
SoundBody(c) ==
    CASE c = "Animal" -> "Some sound"
      [] c = "Dog"    -> "Woof!"
      [] c = "Cat"    -> "Meow!"

\* self.sound() on an instance of class c: the first definition in the MRO.
sound(c) ==
    LET mro == MRO(c)
        k == CHOOSE i \in 1 .. Len(mro) :
                /\ mro[i] \in SoundDefinedIn
                /\ \A j \in 1 .. i - 1 : mro[j] \notin SoundDefinedIn
    IN  SoundBody(mro[k])

AnimalInit ==
    /\ animals = <<>>
    /\ sounds = <<>>

\* Animal() / Dog() / Cat()
NewAnimal(c) ==
    /\ Len(animals) < MaxAnimals
    /\ animals' = Append(animals, c)
    /\ UNCHANGED sounds

\* animals[i].sound()
CallSound(i) ==
    /\ Len(sounds) < MaxCalls
    /\ sounds' = Append(sounds, [self |-> i, text |-> sound(animals[i])])
    /\ UNCHANGED animals

----------------------------------------------------------------------------
(* str and dict: strings are sequences of characters *)

\* The characters str.strip() removes.
Whitespace == {" ", "\n", "\t"}

\* The characters the strings held by user_data are made of.
Chars == {"a", " ", "\n"}

\* The strings of length at most n over Chars.
StrsUpTo(n) == UNION {[1 .. k -> Chars] : k \in 0 .. n}

RECURSIVE StrLStrip(_)
\* str.lstrip()
StrLStrip(s) ==
    IF s # <<>> /\ Head(s) \in Whitespace THEN StrLStrip(Tail(s)) ELSE s

RECURSIVE StrRStrip(_)
\* str.rstrip()
StrRStrip(s) ==
    IF s # <<>> /\ s[Len(s)] \in Whitespace
    THEN StrRStrip(SubSeq(s, 1, Len(s) - 1))
    ELSE s

\* str.strip(): the whitespace at the two ends is removed, none inside.
StrStrip(s) == StrRStrip(StrLStrip(s))

RECURSIVE StrSplitFrom(_, _, _)
\* The lines of s from position i on, cur being the line read so far.
StrSplitFrom(s, i, cur) ==
    IF i > Len(s) THEN <<cur>>
    ELSE IF s[i] = "\n" THEN <<cur>> \o StrSplitFrom(s, i + 1, <<>>)
    ELSE StrSplitFrom(s, i + 1, Append(cur, s[i]))

\* s.split("\n"): the lines of a block of text.
StrLines(s) == StrSplitFrom(s, 1, <<>>)

\* Mutant of DictGetItem: a missing key answers "" (d.get(k, "")).
DictGetOrEmpty(d, k) ==
    IF k \in DOMAIN d THEN Returned(d[k]) ELSE Returned(<<>>)

\* d[k]: KeyError when k is not a key of d.
DictGetItem(d, k) ==
    IF k \in DOMAIN d THEN Returned(d[k]) ELSE Raised("KeyError", <<>>)

\* d.get(k, default)
DictGet(d, k, default) == IF k \in DOMAIN d THEN d[k] ELSE default

----------------------------------------------------------------------------
(* format_user_data *)

NL == <<"\n">>
Indent4 == <<" ", " ", " ", " ">>
Indent8 == Indent4 \o Indent4
NameLabel   == <<"N", "a", "m", "e", ":", " ">>
EmailLabel  == <<"E", "m", "a", "i", "l", ":", " ">>
StatusLabel == <<"S", "t", "a", "t", "u", "s", ":", " ">>
NA == <<"N", "/", "A">>

\* The f-string of lines 83-87, name / email / status being the three
\* interpolated values: each template line keeps the indentation of the
\* source, and the closing quotes sit on a line of their own.
Template(name, email, status) ==
    NL \o Indent8 \o NameLabel \o name
       \o NL \o Indent8 \o EmailLabel \o email
       \o NL \o Indent8 \o StatusLabel \o status
       \o NL \o Indent4

\* format_user_data(user_data). Lines 79 and 80 read "name" and "status"
\* first, so a missing key raises before the block is built.
format_user_data(ud) ==
    LET n == DictGetItem(ud, "name")
        s == DictGetItem(ud, "status")
    IN  IF ~n.ok THEN n
        ELSE IF ~s.ok THEN s
        ELSE Returned(StrStrip(Template(n.val, DictGet(ud, "email", NA), s.val)))

\* The mapping main() formats.
MainUser ==
    [name   |-> <<"A", "l", "i", "c", "e">>,
     status |-> <<"a", "c", "t", "i", "v", "e">>,
     email  |-> <<"a", "l", "i", "c", "e", "@", "e", "x", "a", "m", "p", "l", "e",
                  ".", "c", "o", "m">>]

\* The keys format_user_data reads.
UserKeys == {"name", "status", "email"}

\* A key format_user_data never reads, and the value it maps to when present.
OtherKey == "age"
OtherVal == <<"a">>

\* The mapping m, with the unread key added when other is TRUE.
WithOtherKey(m, other) ==
    IF other
    THEN [k \in DOMAIN m \cup {OtherKey} |-> IF k = OtherKey THEN OtherVal ELSE m[k]]
    ELSE m

\* The argument is main()'s mapping, or maps any subset of the three keys to
\* any strings, with or without the unread key.
FormatInit ==
    /\ \/ user_data = MainUser
       \/ \E D \in SUBSET UserKeys :
            \E m \in [D -> StrsUpTo(MaxValLen)] :
              \E other \in BOOLEAN : user_data = WithOtherKey(m, other)
    /\ fmt_res = NotCalled

CallFormat ==
    /\ fmt_res = NotCalled
    /\ fmt_res' = [fn |-> "format_user_data", out |-> format_user_data(user_data)]
    /\ UNCHANGED user_data

----------------------------------------------------------------------------
(* float: a reduced format. The finite values are the integers of magnitude *)
(* at most MaxFloat; beyond it a result overflows. Inf, -Inf and NaN behave *)
(* as in IEEE 754, and ** raises OverflowError as Python's float does.      *)

Fin(v) == [k |-> "fin", v |-> v]
PosInf == [k |-> "inf", v |-> 1]
NegInf == [k |-> "inf", v |-> -1]
NaN    == [k |-> "nan", v |-> 0]
Zero   == Fin(0)

IsFinite(a) == a.k = "fin"

\* a == b on floats: NaN equals nothing, itself included.
FloatEq(a, b) == a.k # "nan" /\ b.k # "nan" /\ a = b

\* A real result rounded into the format: overflow gives an infinity.
Rounded(v) ==
    IF v > MaxFloat THEN PosInf
    ELSE IF v < -MaxFloat THEN NegInf
    ELSE Fin(v)

\* a + b
FAdd(a, b) ==
    IF a.k = "nan" \/ b.k = "nan" THEN NaN
    ELSE IF a.k = "inf" /\ b.k = "inf" THEN (IF a.v = b.v THEN a ELSE NaN)
    ELSE IF a.k = "inf" THEN a
    ELSE IF b.k = "inf" THEN b
    ELSE Rounded(a.v + b.v)

\* -a
FNeg(a) == IF a.k = "nan" THEN NaN ELSE [k |-> a.k, v |-> -a.v]

\* a - b
FSub(a, b) == FAdd(a, FNeg(b))

\* a ** 2: OverflowError when a finite base gives a result out of range.
FSquare(a) ==
    IF a.k = "nan" THEN Returned(NaN)
    ELSE IF a.k = "inf" THEN Returned(PosInf)
    ELSE IF a.v * a.v > MaxFloat THEN Raised("OverflowError", NaN)
    ELSE Returned(Fin(a.v * a.v))

\* The representable value nearest to the square root of n >= 0.
NearestRoot(n) ==
    CHOOSE r \in 0 .. n : (r = 0 \/ r * r - r < n) /\ n <= r * r + r

\* a ** 0.5: a negative finite base gives a complex number.
FRoot(a) ==
    IF a.k = "nan" THEN Returned(NaN)
    ELSE IF a.k = "inf" THEN Returned(PosInf)
    ELSE IF a.v < 0 THEN Returned([k |-> "complex", v |-> a.v])
    ELSE Returned(Fin(NearestRoot(a.v)))

----------------------------------------------------------------------------
(* distance *)

\* Mutant of distance: the coordinates are added (x2 + x1, y2 + y1).
distance_of_sums(a, b) ==
    LET sx == FSquare(FAdd(b[1], a[1]))
        sy == FSquare(FAdd(b[2], a[2]))
    IN  IF ~sx.ok THEN sx
        ELSE IF ~sy.ok THEN sy
        ELSE FRoot(FAdd(sx.val, sy.val))

\* distance(p1, p2): ((x2 - x1) ** 2 + (y2 - y1) ** 2) ** 0.5
distance(a, b) ==
    LET sx == FSquare(FSub(b[1], a[1]))
        sy == FSquare(FSub(b[2], a[2]))
    IN  IF ~sx.ok THEN sx
        ELSE IF ~sy.ok THEN sy
        ELSE FRoot(FAdd(sx.val, sy.val))

\* The floats a coordinate is drawn from.
Coords == {Fin(v) : v \in -MaxCoord .. MaxCoord} \cup {PosInf, NegInf, NaN}

\* Point = tuple[float, float]
Points == Coords \X Coords

DistanceInit ==
    /\ p1 \in Points
    /\ p2 \in Points
    /\ dist_res = NotCalled

CallDistance ==
    /\ dist_res = NotCalled
    /\ dist_res' = [fn |-> "distance", out |-> distance(p1, p2)]
    /\ UNCHANGED <<p1, p2>>

----------------------------------------------------------------------------
(* Specifications: one per unit, the other units' variables at rest *)

IdleStack    == items = <<>> /\ hist = <<>>
IdleAcc      == seq_arg = <<>> /\ acc_res = NotCalled
IdleAnimals  == animals = <<>> /\ sounds = <<>>
IdleFmt      == user_data = <<>> /\ fmt_res = NotCalled
IdleDistance == p1 = <<>> /\ p2 = <<>> /\ dist_res = NotCalled

Init ==
    /\ StackInit
    /\ IdleAcc /\ IdleAnimals /\ IdleFmt /\ IdleDistance

Next ==
    \/ \E item \in Elems :
          Push(item) /\ UNCHANGED <<accVars, animalVars, fmtVars, distVars>>
    \/ Pop /\ UNCHANGED <<accVars, animalVars, fmtVars, distVars>>

Spec == Init /\ [][Next]_vars

InitAccessors ==
    /\ AccInit
    /\ IdleStack /\ IdleAnimals /\ IdleFmt /\ IdleDistance

NextAccessors ==
    \/ CallFirst /\ UNCHANGED <<stackVars, animalVars, fmtVars, distVars>>
    \/ CallLast /\ UNCHANGED <<stackVars, animalVars, fmtVars, distVars>>

SpecAccessors == InitAccessors /\ [][NextAccessors]_vars

InitAnimals ==
    /\ AnimalInit
    /\ IdleStack /\ IdleAcc /\ IdleFmt /\ IdleDistance

NextAnimals ==
    \/ \E c \in Classes :
          NewAnimal(c) /\ UNCHANGED <<stackVars, accVars, fmtVars, distVars>>
    \/ \E i \in 1 .. Len(animals) :
          CallSound(i) /\ UNCHANGED <<stackVars, accVars, fmtVars, distVars>>

SpecAnimals == InitAnimals /\ [][NextAnimals]_vars

InitFormat ==
    /\ FormatInit
    /\ IdleStack /\ IdleAcc /\ IdleAnimals /\ IdleDistance

NextFormat ==
    CallFormat /\ UNCHANGED <<stackVars, accVars, animalVars, distVars>>

SpecFormat == InitFormat /\ [][NextFormat]_vars

InitDistance ==
    /\ DistanceInit
    /\ IdleStack /\ IdleAcc /\ IdleAnimals /\ IdleFmt

NextDistance ==
    CallDistance /\ UNCHANGED <<stackVars, accVars, animalVars, fmtVars>>

SpecDistance == InitDistance /\ [][NextDistance]_vars

----------------------------------------------------------------------------
(* Claims about the Stack, under Spec *)

\* The last call made on the Stack.
LastCall == hist[Len(hist)]

\* This step is a call of push / of pop.
PushCalled == Len(hist') = Len(hist) + 1 /\ LastCall'.op = "push"
PopCalled  == Len(hist') = Len(hist) + 1 /\ LastCall'.op = "pop"

NumPushes(h) == Cardinality({i \in 1 .. Len(h) : h[i].op = "push"})
NumPopsOk(h) == Cardinality({i \in 1 .. Len(h) : h[i].op = "pop" /\ h[i].out.ok})

\* The run so far is n pushes followed by n pops.
PushesThenPops(h, n) ==
    /\ Len(h) = 2 * n
    /\ \A i \in 1 .. n : h[i].op = "push" /\ h[n + i].op = "pop"

\* C1: LIFO law. After push(p1), ..., push(pn) on a fresh Stack and then n
\* calls of pop, every pop has returned a value, and the j-th pop returned
\* p(n+1-j): the pops give the pushed values in reverse order.
C1_LIFO ==
    \A n \in 0 .. MaxOps :
        PushesThenPops(hist, n) =>
            \A j \in 1 .. n :
                /\ hist[n + j].out.ok
                /\ hist[n + j].out.val = hist[n + 1 - j].arg

\* Three pushes, not all of one value, then three pops.
C1_Witness ==
    /\ PushesThenPops(hist, 3)
    /\ hist[1].arg # hist[3].arg
    /\ hist[2].arg # hist[3].arg

\* C2: pop() on a Stack holding no element raises (IndexError) instead of
\* returning a value, and the Stack still holds no element afterwards.
C2_PopEmptyRaises ==
    [][(PopCalled /\ Len(items) = 0) =>
          /\ ~LastCall'.out.ok
          /\ LastCall'.out.err = "IndexError"
          /\ Len(items') = 0]_vars

\* A pop that raised on a Stack emptied by earlier pushes and pops.
C2_Witness ==
    /\ Len(hist) >= 3
    /\ hist[1].op = "push"
    /\ LastCall.op = "pop"
    /\ ~LastCall.out.ok
    /\ items = <<>>

\* C3: size accounting. Each push(item) appends item and leaves the elements
\* stored before in place; each pop that returns removes the last element
\* alone; so the size is the number of pushes minus the number of pops that
\* returned, and never negative.
C3_SizeAccounting ==
    /\ [](/\ Len(items) = NumPushes(hist) - NumPopsOk(hist)
          /\ NumPushes(hist) >= NumPopsOk(hist))
    /\ [][/\ PushCalled =>
                /\ Len(items') = Len(items) + 1
                /\ SubSeq(items', 1, Len(items)) = items
                /\ items'[Len(items')] = LastCall'.arg
          /\ (PopCalled /\ LastCall'.out.ok) =>
                /\ Len(items') = Len(items) - 1
                /\ items' = SubSeq(items, 1, Len(items) - 1)]_vars

\* Pushes and pops interleaved, one pop having raised, elements still stored.
C3_Witness ==
    /\ Len(items) >= 2
    /\ NumPopsOk(hist) >= 1
    /\ \E i \in 1 .. Len(hist) : hist[i].op = "pop" /\ ~hist[i].out.ok
    /\ items[1] # items[2]

----------------------------------------------------------------------------
(* Claims about first / last, under SpecAccessors *)

\* C4: on a non-empty sequence first returns the element at the lowest index
\* and last the element at the highest index (the same element when there is
\* one), and no step changes the sequence.
C4_FirstLast ==
    /\ []((acc_res # NotCalled /\ Len(seq_arg) > 0) =>
            /\ acc_res.out.ok
            /\ acc_res.fn = "first" => acc_res.out.val = seq_arg[1]
            /\ acc_res.fn = "last" => acc_res.out.val = seq_arg[Len(seq_arg)])
    /\ [][seq_arg' = seq_arg]_vars

\* last has been called on a sequence whose ends differ.
C4_Witness ==
    /\ acc_res # NotCalled
    /\ acc_res.fn = "last"
    /\ Len(seq_arg) >= 3
    /\ seq_arg[1] # seq_arg[Len(seq_arg)]
    /\ seq_arg[2] # seq_arg[Len(seq_arg)]

\* C5: on a sequence of length zero first and last raise (IndexError) and
\* return no value.
C5_EmptyRaises ==
    (acc_res # NotCalled /\ Len(seq_arg) = 0) =>
        /\ ~acc_res.out.ok
        /\ acc_res.out.err = "IndexError"
        /\ acc_res.out.val = NoVal

\* first has been called on the empty sequence.
C5_Witness ==
    /\ acc_res # NotCalled
    /\ acc_res.fn = "first"
    /\ seq_arg = <<>>

----------------------------------------------------------------------------
(* Claims about the Animal hierarchy, under SpecAnimals *)

\* C6: sound() depends on the class alone: every call on a Dog returned
\* "Woof!", on a Cat "Meow!", on a base Animal "Some sound", so two calls on
\* one instance returned the same text.
C6_SoundByVariant ==
    /\ \A k \in 1 .. Len(sounds) :
          LET c == animals[sounds[k].self]
          IN  /\ c = "Dog" => sounds[k].text = "Woof!"
              /\ c = "Cat" => sounds[k].text = "Meow!"
              /\ c = "Animal" => sounds[k].text = "Some sound"
    /\ \A j, k \in 1 .. Len(sounds) :
          sounds[j].self = sounds[k].self => sounds[j].text = sounds[k].text

\* A Dog has been asked twice, and a Cat once.
C6_Witness ==
    /\ \E j, k \in 1 .. Len(sounds) :
          /\ j < k
          /\ sounds[j].self = sounds[k].self
          /\ animals[sounds[j].self] = "Dog"
    /\ \E k \in 1 .. Len(sounds) : animals[sounds[k].self] = "Cat"

----------------------------------------------------------------------------
(* Claims about format_user_data, under SpecFormat *)

FormatCalled == fmt_res # NotCalled

\* C7: for a mapping with "name", "status" and "email" the call returns a
\* block of exactly three lines: "Name: " + name, "Email: " + email and
\* "Status: " + status, in this order.
C7_ThreeLines ==
    (FormatCalled /\ UserKeys \subseteq DOMAIN user_data) =>
        /\ fmt_res.out.ok
        /\ StrLines(fmt_res.out.val) =
              << NameLabel \o user_data["name"],
                 EmailLabel \o user_data["email"],
                 StatusLabel \o user_data["status"] >>

\* The number of line breaks in the string s.
LineBreaks(s) == Cardinality({i \in 1 .. Len(s) : s[i] = "\n"})

\* The email line of the returned block: the line the template's Email line
\* lands on, which is the second line unless the name itself holds line
\* breaks.
EmailLine == StrLines(fmt_res.out.val)[2 + LineBreaks(user_data["name"])]

\* The string t occurs in the string s.
Contains(s, t) ==
    \E i \in 0 .. Len(s) - Len(t) : SubSeq(s, i + 1, i + Len(t)) = t

\* C8: without an "email" key the call succeeds and the email line of the
\* block reads "Email: N/A"; with the key the block carries "Email: "
\* followed by the mapped value.
C8_EmailLine ==
    (FormatCalled /\ {"name", "status"} \subseteq DOMAIN user_data) =>
        /\ fmt_res.out.ok
        /\ "email" \notin DOMAIN user_data => EmailLine = EmailLabel \o NA
        /\ "email" \in DOMAIN user_data =>
              Contains(fmt_res.out.val, EmailLabel \o user_data["email"])

\* C9: the call raises a missing-key error (KeyError) and returns no text
\* when "name" or "status" is absent, whether or not "email" is present, and
\* it returns when both are present.
C9_MissingKey ==
    FormatCalled =>
        /\ fmt_res.out.ok <=> {"name", "status"} \subseteq DOMAIN user_data
        /\ ~fmt_res.out.ok =>
              /\ fmt_res.out.err = "KeyError"
              /\ fmt_res.out.val = <<>>

\* The call raised on a mapping that has "status" and "email" but no "name".
C9_Witness ==
    /\ FormatCalled
    /\ ~fmt_res.out.ok
    /\ DOMAIN user_data = {"status", "email"}

----------------------------------------------------------------------------
(* Claims about distance, under SpecDistance *)

DistanceCalled == dist_res # NotCalled

Origin      == <<Fin(0), Fin(0)>>
ThreeFour   == <<Fin(3), Fin(4)>>

\* distance((0.0, 0.0), (3.0, 4.0)) == 5.0
ThreeFourFive ==
    (p1 = Origin /\ p2 = ThreeFour) =>
        dist_res.out.ok /\ FloatEq(dist_res.out.val, Fin(5))

\* C10 as stated: distance(p, p) == 0.0 for any pair p of floats, and the
\* 3-4-5 example.
C10_IdentityAnyPoint ==
    DistanceCalled =>
        /\ p1 = p2 => (dist_res.out.ok /\ FloatEq(dist_res.out.val, Zero))
        /\ ThreeFourFive

\* C10 amended: distance(p, p) == 0.0 for any point p whose two coordinates
\* are finite; for a p with an infinite or NaN coordinate the result is NaN;
\* and the 3-4-5 example.
C10_IdentityFinite ==
    DistanceCalled =>
        /\ (p1 = p2 /\ IsFinite(p1[1]) /\ IsFinite(p1[2])) =>
              (dist_res.out.ok /\ FloatEq(dist_res.out.val, Zero))
        /\ (p1 = p2 /\ ~(IsFinite(p1[1]) /\ IsFinite(p1[2]))) =>
              (dist_res.out.ok /\ dist_res.out.val = NaN)
        /\ ThreeFourFive

\* distance(p, p) has been computed for a finite p away from the axes.
C10_Witness ==
    /\ DistanceCalled
    /\ p1 = p2
    /\ IsFinite(p1[1]) /\ IsFinite(p1[2])
    /\ p1[1].v > 1 /\ p1[2].v < -1

====
